---- MODULE Spec2Model ----
(***************************************************************************)
(* The content-addressable store HashIO (src/src/hashio.rs) and the        *)
(* hash-chained DefaultLog (src/src/log.rs) as state machines.             *)
(*                                                                         *)
(* Bytes are sequences of tokens, one token per write call of the wire     *)
(* format: a u32, a u8, a 32-byte digest or the bytes of a text.  A digest *)
(* is the record [sha3 |-> the bytes hashed]: SHA3-256 is modelled as a    *)
(* collision-free function of its input.                                   *)
(***************************************************************************)
EXTENDS Integers, Sequences, FiniteSets, TLC

VARIABLES
    names,      \* the directory entries of the store: path -> inode
    inodes,     \* inode -> the bytes of the file
    dirs,       \* the shard directories that exist
    stack,      \* per process, its call stack of put / get frames
    result,     \* per process, the outcome of its last finished call
    trace,      \* the files opened and decoders invoked by the running get
    putOk,      \* the values whose put has returned Ok
    faults,     \* crashes and I/O failures injected so far
    ops,        \* calls started so far
    seen,       \* what a concurrent reader found at a final path
    migrated,   \* the values a get has returned from its migration chain
    load,       \* the workload of the run: the values and hashes of its calls
    models,     \* the tbd_model! types a crate declares, and their type hashes
    logs,       \* the DefaultLog values: their entries and head
    pushes,     \* per log, the calls of push so far: item, returned hash, head before
    iter,       \* the live iterator over a log, and what next has returned so far
    hooks,      \* per log, the calls its load and save closures have received
    asked       \* the last call of get or parent_hash by a caller, and its answer

\* the closures of the logs and the lookups of their callers
hookvars == <<hooks, asked>>

\* the variables of the logs
logvars == <<logs, pushes, iter, hookvars>>

\* the variables of the store and its callers
hashio_vars ==
    <<names, inodes, dirs, stack, result, trace, putOk, faults, ops, seen,
      migrated, load, models>>

vars ==
    <<names, inodes, dirs, stack, result, trace, putOk, faults, ops, seen,
      migrated, load, models, logvars>>

fs == <<names, inodes, dirs>>

---------------------------------------------------------------------------
(* Bounds of the model. *)

\* calls the single client starts in one run
MaxOps == 3
\* crashes and failed I/O steps in one run
MaxFaults == 1
\* frames on the call stack of a get before the process runs out of stack
MaxDepth == 5
\* pushes per log
MaxPush == 3
\* entries of the logs that hold another item than the one pushed
MaxMut == 1
\* calls of next on an iterator beyond the number of entries of its log
MaxExtra == 2
\* fields, scalar and child together, of a declared model
MaxFields == 2

---------------------------------------------------------------------------
(* Tokens and digests. *)

TokU32(n)   == [k |-> "u32",   n |-> n, s |-> "", h |-> <<>>]
TokU8(n)    == [k |-> "u8",    n |-> n, s |-> "", h |-> <<>>]
TokBytes(s) == [k |-> "bytes", n |-> 0, s |-> s,  h |-> <<>>]
TokHash(h)  == [k |-> "hash",  n |-> 0, s |-> "", h |-> <<h>>]
\* size bytes of a file that were never written (a hole reads as zeros)
TokZero(size) == [k |-> "zero", n |-> size, s |-> "", h |-> <<>>]

\* Hash::hash_bytes
hash_bytes(bytes) == [sha3 |-> bytes]

\* Hash::get_bytes of a Sha3 digest: its 32 bytes
get_bytes(h) == <<TokHash(h)>>

\* a hash_with that leaves the other hash out
hash_with_Alone(h, o) == hash_bytes(get_bytes(h))

\* Hash::hash_with
hash_with(h, o) == hash_bytes(get_bytes(h) \o get_bytes(o))

\* the digest made of bytes that are no digest of any value (a misaligned read)
GarbageHash == [sha3 |-> <<TokZero(0)>>]

\* the texts of the model and their lengths in bytes (str::len)
Texts == {"", "1", "Foo", "baz", "bla", "one"}

str_len(s) ==
    CASE s = "" -> 0
      [] s = "1" -> 1
      [] s = "u8" -> 2
      [] s = "String" -> 6
      [] s = "BTreeMap" -> 8
      [] OTHER -> 3

\* the number of bytes a token takes in a file
TokSize(t) ==
    CASE t.k = "u32" -> 4
      [] t.k = "u8" -> 1
      [] t.k = "hash" -> 32
      [] t.k = "bytes" -> str_len(t.s)
      [] OTHER -> t.n

RECURSIVE ByteLen(_)
ByteLen(bytes) ==
    IF bytes = <<>> THEN 0 ELSE TokSize(Head(bytes)) + ByteLen(Tail(bytes))

---------------------------------------------------------------------------
(* The storable types: the models the tests of hashio.rs declare with      *)
(* tbd_model!, the generic containers, String, and the legacy models of    *)
(* tbd_model_1!.  convert_test::C and convert_test::A2 are a further model *)
(* and legacy model declared with the same macros, so that a chain of two  *)
(* legacy decoders exists beside the chain of convert_test::A.             *)

\* flex_no: the chain of a model declared without one
flex_no == <<>>

\* tbd_convert_chain!(a_convert, A, [a_old_convert, a_b_convert])
a_convert == <<"a_old_convert", "a_b_convert">>

\* tbd_convert_chain!(c_convert, C, [c_a2_convert, c_a1_convert])
c_convert == <<"c_a2_convert", "c_a1_convert">>

TypeDecl(kind, attrs, childs, flex) ==
    [kind |-> kind, attrs |-> attrs, childs |-> childs, flex |-> flex]

Decl(T) ==
    CASE T = "String" -> TypeDecl("string", <<>>, <<>>, flex_no)
      [] T = "test2::A" -> TypeDecl("model", <<"u8">>, <<"String">>, flex_no)
      [] T = "test2::B" ->
            TypeDecl("model", <<>>, <<"String", "test2::A", "test2::A">>, flex_no)
      [] T = "btreemaptest::A" ->
            TypeDecl("model", <<>>, <<"BTreeMap<String, String>">>, flex_no)
      [] T = "BTreeMap<String, String>" ->
            TypeDecl("map", <<>>, <<"String", "String">>, flex_no)
      [] T = "Vec<String>" -> TypeDecl("vec", <<>>, <<"String">>, flex_no)
      [] T = "convert_test::B" ->
            TypeDecl("model", <<>>, <<"String", "String">>, flex_no)
      [] T = "convert_test::A" ->
            TypeDecl("model", <<>>, <<"String", "String">>, a_convert)
      [] T = "convert_test::C" ->
            TypeDecl("model", <<"u8">>, <<"String", "String">>, c_convert)
      [] T = "convert_test::A1" -> TypeDecl("model_1", <<>>, <<"String">>, flex_no)
      [] T = "convert_test::A2" ->
            TypeDecl("model_1", <<>>, <<"String", "String">>, flex_no)

\* the decoders generated by tbd_old_convert_gen! and tbd_convert_gen!
Converter(name) ==
    CASE name = "a_old_convert" ->
            [gen |-> "tbd_old_convert_gen", old |-> "convert_test::A1",
             new |-> "convert_test::A"]
      [] name = "a_b_convert" ->
            [gen |-> "tbd_convert_gen", old |-> "convert_test::B",
             new |-> "convert_test::A"]
      [] name = "c_a2_convert" ->
            [gen |-> "tbd_old_convert_gen", old |-> "convert_test::A2",
             new |-> "convert_test::C"]
      [] name = "c_a1_convert" ->
            [gen |-> "tbd_old_convert_gen", old |-> "convert_test::A1",
             new |-> "convert_test::C"]

\* Typeable::type_hash: for String the digest of its name, for a model the
\* digest of its scalar types' name digests followed by its child types'
\* type hashes, for a container the digest of its name digest followed by
\* its parameters' type hashes
RECURSIVE type_hash(_)
TypeHashes(types) == [i \in 1..Len(types) |-> TokHash(type_hash(types[i]))]

\* Typeable for a tbd_model! type: the digest of the digest of each scalar
\* field's type as the declaration spells it (stringify!), followed by the
\* type hash of each child field's type
model_type_hash(attrs, childs) ==
    hash_bytes([i \in 1..Len(attrs) |-> TokHash(hash_bytes(<<TokBytes(attrs[i])>>))]
               \o TypeHashes(childs))

type_hash(T) ==
    LET d == Decl(T) IN
    CASE d.kind = "string" -> hash_bytes(<<TokBytes("String")>>)
      [] d.kind = "map" ->
            hash_bytes(<<TokHash(hash_bytes(<<TokBytes("BTreeMap")>>))>>
                       \o TypeHashes(d.childs))
      [] d.kind = "vec" ->
            hash_bytes(<<TokHash(hash_bytes(<<TokBytes("Vec")>>))>>
                       \o TypeHashes(d.childs))
      [] OTHER -> model_type_hash(d.attrs, d.childs)

---------------------------------------------------------------------------
(* Values, their bytes and their content hashes. *)

Str(s) == [type |-> "String", attrs |-> <<>>, text |-> s, childs |-> <<>>]

Model(T, attrs, childs) ==
    [type |-> T, attrs |-> attrs, text |-> "", childs |-> childs]

\* the reserved u32 a container record starts with
ContainerFormat == 0

RECURSIVE as_hash(_)
ChildHashes(v) == [i \in 1..Len(v.childs) |-> TokHash(as_hash(v.childs[i]))]

\* Writable::write_to of String: the length, then the bytes
WriteString(v) ==
    <<TokU32(str_len(v.text))>> \o (IF v.text = "" THEN <<>> ELSE <<TokBytes(v.text)>>)

\* a write_to that leaves the scalar fields out of the record
WriteModel_NoAttrs(v) ==
    <<TokU32(1), TokHash(type_hash(v.type))>> \o ChildHashes(v)

\* Writable::write_to of a tbd_model! type: version 1, the type hash, the
\* scalar fields (write_u8), the content hash of each child field
WriteModel(v) ==
    <<TokU32(1), TokHash(type_hash(v.type))>>
    \o [i \in 1..Len(v.attrs) |-> TokU8(v.attrs[i])]
    \o ChildHashes(v)

\* Writable::write_to of BTreeMap and Vec: the reserved u32, the number of
\* entries, the content hash of each key and value
WriteContainer(v) ==
    <<TokU32(ContainerFormat),
      TokU32(IF Decl(v.type).kind = "map" THEN Len(v.childs) \div 2 ELSE Len(v.childs))>>
    \o ChildHashes(v)

\* Writable::write_to of a tbd_model_1! type of the legacy store
WriteModel1(v) == ChildHashes(v)

\* Writable::write_to
write_to(v) ==
    LET kind == Decl(v.type).kind IN
    CASE kind = "string" -> WriteString(v)
      [] kind = "model" -> WriteModel(v)
      [] kind \in {"map", "vec"} -> WriteContainer(v)
      [] OTHER -> WriteModel1(v)

\* Hashable::as_hash: the digest of the text of a String, and of the
\* serialization of any other value (hashable_for_writable!)
as_hash(v) ==
    IF Decl(v.type).kind = "string"
    THEN hash_bytes(IF v.text = "" THEN <<>> ELSE <<TokBytes(v.text)>>)
    ELSE hash_bytes(write_to(v))

---------------------------------------------------------------------------
(* Results and errors (HashIOError). *)

NoError == [kind |-> "", n |-> 0, h |-> <<>>]
IOError == [kind |-> "IOError", n |-> 0, h |-> <<>>]
ParseError == [kind |-> "ParseError", n |-> 0, h |-> <<>>]
VersionError(version) == [kind |-> "VersionError", n |-> version, h |-> <<>>]
TypeError(hash) == [kind |-> "TypeError", n |-> 0, h |-> <<hash>>]

Ok(v) == [ok |-> TRUE, val |-> <<v>>, err |-> NoError]
OkUnit == [ok |-> TRUE, val |-> <<>>, err |-> NoError]
Err(e) == [ok |-> FALSE, val |-> <<>>, err |-> e]

---------------------------------------------------------------------------
(* Reading a file.  A reader is the tokens still to read; once a read does *)
(* not start at a token of the kind it expects, every later read of the    *)
(* file yields bytes that mean nothing (garbage) until the file ends.      *)

\* what garbage bytes happen to be: a u32 that is zero or not, a text that
\* is valid UTF-8 or not
Garbage == [zero : BOOLEAN, utf8 : BOOLEAN]

NoReader == [toks |-> <<>>, left |-> 0, aligned |-> TRUE]

OpenReader(bytes) == [toks |-> bytes, left |-> ByteLen(bytes), aligned |-> TRUE]

Misaligned(rd, size) == [toks |-> <<>>, left |-> rd.left - size, aligned |-> FALSE]

Advance(rd, size) ==
    [toks |-> Tail(rd.toks), left |-> rd.left - size, aligned |-> TRUE]

AtToken(rd, kind, size) ==
    /\ rd.aligned
    /\ rd.toks # <<>>
    /\ Head(rd.toks).k = kind
    /\ TokSize(Head(rd.toks)) = size

\* io::read_u32
read_u32(rd, g) ==
    IF rd.left < 4 THEN [ok |-> FALSE, n |-> 0, rd |-> rd]
    ELSE IF AtToken(rd, "u32", 4)
    THEN [ok |-> TRUE, n |-> Head(rd.toks).n, rd |-> Advance(rd, 4)]
    ELSE IF AtToken(rd, "zero", 4)
    THEN [ok |-> TRUE, n |-> 0, rd |-> Advance(rd, 4)]
    ELSE [ok |-> TRUE, n |-> IF g.zero THEN 0 ELSE 16909060,
          rd |-> Misaligned(rd, 4)]

\* io::read_u8
read_u8(rd, g) ==
    IF rd.left < 1 THEN [ok |-> FALSE, n |-> 0, rd |-> rd]
    ELSE IF AtToken(rd, "u8", 1)
    THEN [ok |-> TRUE, n |-> Head(rd.toks).n, rd |-> Advance(rd, 1)]
    ELSE IF AtToken(rd, "zero", 1)
    THEN [ok |-> TRUE, n |-> 0, rd |-> Advance(rd, 1)]
    ELSE [ok |-> TRUE, n |-> IF g.zero THEN 0 ELSE 7, rd |-> Misaligned(rd, 1)]

\* io::read_hash
read_hash(rd) ==
    IF rd.left < 32 THEN [ok |-> FALSE, h |-> GarbageHash, rd |-> rd]
    ELSE IF AtToken(rd, "hash", 32)
    THEN [ok |-> TRUE, h |-> Head(rd.toks).h[1], rd |-> Advance(rd, 32)]
    ELSE [ok |-> TRUE, h |-> GarbageHash, rd |-> Misaligned(rd, 32)]

\* io::read_bytes followed by String::from_utf8: a text, or "?" for bytes
\* that are some text no value of the model holds; utf8 is whether the
\* bytes are valid UTF-8
read_string(rd, len, g) ==
    IF len = 0 THEN [ok |-> TRUE, utf8 |-> TRUE, s |-> "", rd |-> rd]
    ELSE IF rd.left < len THEN [ok |-> FALSE, utf8 |-> TRUE, s |-> "", rd |-> rd]
    ELSE IF AtToken(rd, "bytes", len)
    THEN [ok |-> TRUE, utf8 |-> TRUE, s |-> Head(rd.toks).s, rd |-> Advance(rd, len)]
    ELSE [ok |-> TRUE, utf8 |-> g.utf8, s |-> "?", rd |-> Misaligned(rd, len)]

---------------------------------------------------------------------------
(* The file system under base_path. *)

\* HashIO::filename_for_hash
filename_for_hash(hash) == [h |-> hash, tmp |-> FALSE]
\* a put that writes in place, at the final path
safe_filename_Final(hash) == [h |-> hash, tmp |-> FALSE]

\* format!("{}_", filename) in HashIO::put
safe_filename(hash) == [h |-> hash, tmp |-> TRUE]

\* HashIO::directory_for_hash: the shard named by the first two hex digits
\* of the digest; the digests of the model fall into two shards
directory_for_hash(hash) == Len(hash.sha3) % 2

\* Path::exists
Exists(path) == path \in DOMAIN names

\* the bytes of the file at a path that exists
FileAt(path) == inodes[names[path]]

\* the inode File::create gives a new file
FreeInode == CHOOSE n \in 1..(Cardinality(DOMAIN inodes) + 1) : n \notin DOMAIN inodes

\* a write of one token at token offset off of a file: a write past the
\* end of a file (one truncated by another writer) leaves a hole before it
RECURSIVE WriteAt(_, _, _, _)
WriteAt(bytes, full, off, tok) ==
    IF Len(bytes) >= off
    THEN [i \in 1..Len(bytes) |-> IF i = off THEN tok ELSE bytes[i]]
    ELSE IF Len(bytes) = off - 1
    THEN Append(bytes, tok)
    ELSE WriteAt(Append(bytes, TokZero(TokSize(full[Len(bytes) + 1]))), full, off, tok)

\* the inodes still referenced by a path or by an open file of a frame
Referenced(nm, stk) ==
    {nm[p] : p \in DOMAIN nm}
    \cup UNION {{stk[p][i].fd : i \in 1..Len(stk[p])} : p \in DOMAIN stk}

\* an inode no path and no open file refers to is gone
Collect(nm, ino, stk) == [n \in (DOMAIN ino) \cap Referenced(nm, stk) |-> ino[n]]

---------------------------------------------------------------------------
(* Call stacks.  A frame is one activation of HashIO::put or HashIO::get;  *)
(* the top of a stack is its last frame.                                   *)

Procs == {1, 2}

Frame(op, v, T, hash) ==
    [op |-> op, v |-> v, T |-> T, h |-> hash, pc |-> IF op = "put" THEN "check" ELSE "open",
     i |-> 1, n |-> 0, fd |-> 0, off |-> 0, rd |-> NoReader,
     attrs |-> <<>>, vals |-> <<>>, hs |-> <<>>, err |-> NoError, cand |-> 1]

PutFrame(v) == Frame("put", <<v>>, v.type, as_hash(v))
GetFrame(T, hash) == Frame("get", <<>>, T, hash)

Top(p) == stack[p][Len(stack[p])]
Pop(s) == SubSeq(s, 1, Len(s) - 1)
SetTop(s, f) == [s EXCEPT ![Len(s)] = f]

Running(p, op, pc) ==
    /\ stack[p] # <<>>
    /\ Top(p).op = op
    /\ Top(p).pc = pc

\* the outcome of a finished call: how it ended and what it returned
Outcome(f, r, end) ==
    [op |-> f.op, v |-> f.v, T |-> f.T, h |-> f.h, r |-> r, end |-> end]

NoOutcome == [op |-> "", v |-> <<>>, T |-> "", h |-> GarbageHash, r |-> OkUnit, end |-> ""]

\* a callee returns r to the frame on top of s: the caller goes on, takes
\* the error path of its try!, or returns itself
RECURSIVE Deliver(_, _)
Deliver(s, r) ==
    IF s = <<>> THEN [stk |-> s, end |-> "returned", r |-> r]
    ELSE LET f == s[Len(s)]
             go(g) == [stk |-> SetTop(s, g), end |-> "", r |-> r]
         IN
         CASE f.op = "get" /\ f.pc = "childs" ->
                IF r.ok
                THEN go([f EXCEPT !.vals = Append(@, r.val[1]), !.i = @ + 1])
                ELSE go([f EXCEPT !.pc = "flex", !.err = r.err, !.cand = 1])
           [] f.op = "get" /\ f.pc = "entries" ->
                IF r.ok
                THEN go([f EXCEPT !.vals = Append(@, r.val[1]),
                                  !.i = IF f.hs = <<>> THEN @ + 1 ELSE @])
                ELSE Deliver(Pop(s), r)
           [] f.op = "get" /\ f.pc = "flexwait" ->
                IF r.ok
                THEN Deliver(Pop(s), r)
                ELSE go([f EXCEPT !.pc = "flex", !.cand = @ + 1])
           [] f.op = "put" /\ f.pc = "childs" ->
                IF r.ok
                THEN go([f EXCEPT !.i = @ + 1,
                                  !.pc = IF f.i = Len(f.v[1].childs) THEN "mkdir" ELSE @])
                ELSE Deliver(Pop(s), r)
           [] OTHER ->
                IF r.ok THEN go([f EXCEPT !.i = @ + 1]) ELSE Deliver(Pop(s), r)

\* the running frame of p returns r
Return(p, r) == Deliver(Pop(stack[p]), r)

\* the running frame of p goes on as f
Continue(p, f) == [stk |-> SetTop(stack[p], f), end |-> "", r |-> OkUnit]

\* the running frame of p goes on as f and calls g; a call with MaxDepth
\* frames on the stack exhausts the stack and ends the process
Call(p, f, g) ==
    IF Len(stack[p]) >= MaxDepth
    THEN [stk |-> <<>>, end |-> "overflow", r |-> OkUnit]
    ELSE [stk |-> Append(SetTop(stack[p], f), g), end |-> "", r |-> OkUnit]

\* the step d of process p takes effect on the stack and the outcomes
Finish(p, d) ==
    /\ stack' = [stack EXCEPT ![p] = d.stk]
    /\ result' = IF d.end = "" THEN result
                 ELSE [result EXCEPT ![p] = Outcome(stack[p][1], d.r, d.end)]
    /\ putOk' = IF d.end = "returned" /\ stack[p][1].op = "put" /\ d.r.ok
                THEN putOk \cup {stack[p][1].v[1]}
                ELSE putOk

---------------------------------------------------------------------------
(* The legacy store hashio_1::HashIO1 over the same base path: its records *)
(* hold the child hashes alone, without version and type hash.             *)

RECURSIVE Get1(_, _)
RECURSIVE Get1Childs(_, _, _)
Get1Childs(types, rd, acc) ==
    IF types = <<>> THEN Ok(acc)
    ELSE LET r == read_hash(rd)
             c == Get1(Head(types), r.h)
         IN  IF ~r.ok \/ ~r.rd.aligned THEN Err(IOError)
             ELSE IF ~c.ok THEN c
             ELSE Get1Childs(Tail(types), r.rd, Append(acc, c.val[1]))

\* HashIO1::get
Get1(T, hash) ==
    IF ~Exists(filename_for_hash(hash)) THEN Err(IOError)
    ELSE LET rd == OpenReader(FileAt(filename_for_hash(hash)))
             g == [zero |-> FALSE, utf8 |-> FALSE]
         IN  IF Decl(T).kind = "string"
             THEN LET l == read_u32(rd, g)
                      s == read_string(l.rd, l.n, g)
                  IN  IF l.ok /\ l.rd.aligned /\ s.ok /\ s.rd.aligned
                      THEN Ok(Str(s.s)) ELSE Err(IOError)
             ELSE LET c == Get1Childs(Decl(T).childs, rd, <<>>)
                  IN  IF c.ok THEN Ok(Model(T, <<>>, c.val[1])) ELSE c

\* the From impls of convert_test: From<A1> for A, From<B> for A, and the
\* like for C
From(new, old) ==
    CASE new = "convert_test::A" /\ old.type = "convert_test::A1" ->
            Model(new, <<>>, <<old.childs[1], Str("")>>)
      [] new = "convert_test::A" /\ old.type = "convert_test::B" ->
            Model(new, <<>>, <<old.childs[1], old.childs[2]>>)
      [] new = "convert_test::C" /\ old.type = "convert_test::A1" ->
            Model(new, <<0>>, <<old.childs[1], Str("")>>)
      [] new = "convert_test::C" /\ old.type = "convert_test::A2" ->
            Model(new, <<0>>, <<old.childs[1], old.childs[2]>>)

---------------------------------------------------------------------------
(* HashIO::get. *)

\* what a get does that its caller can see on the console or at the file
\* system: a file it opens, a failed decode it reports, a decoder it calls
Event(ev, T, hash, e) == [ev |-> ev, T |-> T, h |-> hash, e |-> e]

RECURSIVE ReadAttrs(_, _, _, _)
ReadAttrs(types, rd, g, acc) ==
    IF types = <<>> THEN [err |-> NoError, rd |-> rd, attrs |-> acc]
    ELSE LET r == read_u8(rd, g)
         IN  IF ~r.ok THEN [err |-> IOError, rd |-> rd, attrs |-> acc]
             ELSE ReadAttrs(Tail(types), r.rd, g, Append(acc, r.n))
\* a version check that is off by one and rejects version 1
InternalReceiveHead_Off(T, rd, g) ==
    LET version == read_u32(rd, g)
        th == read_hash(version.rd)
        fail(e, at) == [err |-> e, rd |-> at, attrs |-> <<>>]
    IN  IF ~version.ok THEN fail(IOError, version.rd)
        ELSE IF version.n <= 1 THEN fail(VersionError(version.n), version.rd)
        ELSE IF ~th.ok THEN fail(IOError, th.rd)
        ELSE IF th.h # type_hash(T) THEN fail(TypeError(th.h), th.rd)
        ELSE ReadAttrs(Decl(T).attrs, th.rd, g, <<>>)

\* an internal_receive that reads the version and the type hash and
\* compares the type hash first
InternalReceiveHead_TypeFirst(T, rd, g) ==
    LET version == read_u32(rd, g)
        th == read_hash(version.rd)
        fail(e, at) == [err |-> e, rd |-> at, attrs |-> <<>>]
    IN  IF ~version.ok THEN fail(IOError, version.rd)
        ELSE IF ~th.ok THEN fail(IOError, th.rd)
        ELSE IF th.h # type_hash(T) THEN fail(TypeError(th.h), th.rd)
        ELSE IF version.n < 1 THEN fail(VersionError(version.n), th.rd)
        ELSE ReadAttrs(Decl(T).attrs, th.rd, g, <<>>)

\* internal_receive up to its first child: the version, the type hash and
\* the scalar fields; the reader is left where the decode stopped
InternalReceiveHead(T, rd, g) ==
    LET version == read_u32(rd, g)
        th == read_hash(version.rd)
        fail(e, at) == [err |-> e, rd |-> at, attrs |-> <<>>]
    IN  IF ~version.ok THEN fail(IOError, version.rd)
        ELSE IF version.n < 1 THEN fail(VersionError(version.n), version.rd)
        ELSE IF ~th.ok THEN fail(IOError, th.rd)
        ELSE IF th.h # type_hash(T) THEN fail(TypeError(th.h), th.rd)
        ELSE ReadAttrs(Decl(T).attrs, th.rd, g, <<>>)

\* HashIOImpl<String>::receive_hashable
ReceiveString(rd, g) ==
    LET len == read_u32(rd, g)
        s == read_string(len.rd, len.n, g)
    IN  IF ~len.ok \/ ~s.ok THEN Err(IOError)
        ELSE IF ~s.utf8 THEN Err(ParseError)
        ELSE Ok(Str(s.s))

\* the order of String keys (Ord for String: byte-wise)
Rank(s) ==
    CASE s = "" -> 0
      [] s = "1" -> 1
      [] s = "?" -> 2
      [] s = "Foo" -> 3
      [] s = "baz" -> 4
      [] s = "bla" -> 5
      [] OTHER -> 6

\* BTreeMap::insert on the sorted sequence <<key, value, key, value, ...>>
RECURSIVE insert(_, _, _)
insert(m, key, value) ==
    IF m = <<>> THEN <<key, value>>
    ELSE IF Rank(key.text) < Rank(m[1].text) THEN <<key, value>> \o m
    ELSE IF Rank(key.text) = Rank(m[1].text) THEN <<m[1], value>> \o SubSeq(m, 3, Len(m))
    ELSE <<m[1], m[2]>> \o insert(SubSeq(m, 3, Len(m)), key, value)

RECURSIVE InsertAll(_, _)
InsertAll(m, pairs) ==
    IF pairs = <<>> THEN m
    ELSE InsertAll(insert(m, pairs[1], pairs[2]), SubSeq(pairs, 3, Len(pairs)))

\* a get that hands a file it cannot open to the migration chain
GetOpenStep_ChainOnMissing(p, f, g) ==
    LET path == filename_for_hash(f.h)
        rd == OpenReader(FileAt(path))
        kind == Decl(f.T).kind
        head == InternalReceiveHead(f.T, rd, g)
        fmt == read_u32(rd, g)
        entries == read_u32(fmt.rd, g)
    IN  IF ~Exists(path) /\ kind = "model"
        THEN Continue(p, [f EXCEPT !.pc = "flex", !.err = IOError, !.cand = 1])
        ELSE IF ~Exists(path) THEN Return(p, Err(IOError))
        ELSE IF kind = "string" THEN Return(p, ReceiveString(rd, g))
        ELSE IF kind = "model"
        THEN IF head.err # NoError
             THEN Continue(p, [f EXCEPT !.pc = "flex", !.err = head.err, !.cand = 1,
                                        !.rd = head.rd])
             ELSE Continue(p, [f EXCEPT !.pc = "childs", !.rd = head.rd,
                                        !.attrs = head.attrs, !.i = 1])
        ELSE IF ~fmt.ok \/ ~entries.ok THEN Return(p, Err(IOError))
        ELSE Continue(p, [f EXCEPT !.pc = "entries", !.rd = entries.rd,
                                   !.n = entries.n, !.i = 1])

\* File::open and the decode up to the first child of the record
GetOpenStep(p, f, g) ==
    LET path == filename_for_hash(f.h)
        rd == OpenReader(FileAt(path))
        kind == Decl(f.T).kind
        head == InternalReceiveHead(f.T, rd, g)
        fmt == read_u32(rd, g)
        entries == read_u32(fmt.rd, g)
    IN  IF ~Exists(path) THEN Return(p, Err(IOError))
        ELSE IF kind = "string" THEN Return(p, ReceiveString(rd, g))
        ELSE IF kind = "model"
        THEN IF head.err # NoError
             THEN Continue(p, [f EXCEPT !.pc = "flex", !.err = head.err, !.cand = 1,
                                        !.rd = head.rd])
             ELSE Continue(p, [f EXCEPT !.pc = "childs", !.rd = head.rd,
                                        !.attrs = head.attrs, !.i = 1])
        ELSE IF ~fmt.ok \/ ~entries.ok THEN Return(p, Err(IOError))
        ELSE Continue(p, [f EXCEPT !.pc = "entries", !.rd = entries.rd,
                                   !.n = entries.n, !.i = 1])

GetOpen(p) ==
    /\ Running(p, "get", "open")
    /\ \E g \in Garbage : Finish(p, GetOpenStep(p, Top(p), g))
    /\ trace' = Append(trace, Event("open", Top(p).T, Top(p).h, NoError))
    /\ UNCHANGED <<fs, faults, ops, seen, migrated, load, models, logvars>>

\* internal_receive at a child field: read_hash, then hash_io.get
GetChildStep(p, f) ==
    LET childs == Decl(f.T).childs
        r == read_hash(f.rd)
    IN  IF f.i > Len(childs) THEN Return(p, Ok(Model(f.T, f.attrs, f.vals)))
        ELSE IF ~r.ok
        THEN Continue(p, [f EXCEPT !.pc = "flex", !.err = IOError, !.cand = 1])
        ELSE Call(p, [f EXCEPT !.rd = r.rd], GetFrame(childs[f.i], r.h))

GetChild(p) ==
    /\ Running(p, "get", "childs")
    /\ Finish(p, GetChildStep(p, Top(p)))
    /\ UNCHANGED <<fs, trace, faults, ops, seen, migrated, load, models, logvars>>

\* the loop of HashIOImpl<BTreeMap<T, U>>::receive_hashable and of
\* HashIOImpl<Vec<T>>::receive_hashable
GetEntryStep(p, f) ==
    LET d == Decl(f.T)
        a == read_hash(f.rd)
        b == read_hash(a.rd)
    IN  IF f.hs # <<>>
        THEN Call(p, [f EXCEPT !.hs = Tail(@)], GetFrame(d.childs[2], Head(f.hs)))
        ELSE IF f.i > f.n
        THEN Return(p, Ok(Model(f.T, <<>>,
                                IF d.kind = "map" THEN InsertAll(<<>>, f.vals)
                                ELSE f.vals)))
        ELSE IF d.kind = "vec"
        THEN IF ~a.ok THEN Return(p, Err(IOError))
             ELSE Call(p, [f EXCEPT !.rd = a.rd], GetFrame(d.childs[1], a.h))
        ELSE IF ~a.ok \/ ~b.ok THEN Return(p, Err(IOError))
        ELSE Call(p, [f EXCEPT !.rd = b.rd, !.hs = <<b.h>>], GetFrame(d.childs[1], a.h))

GetEntry(p) ==
    /\ Running(p, "get", "entries")
    /\ Finish(p, GetEntryStep(p, Top(p)))
    /\ UNCHANGED <<fs, trace, faults, ops, seen, migrated, load, models, logvars>>

\* the decoder tbd_old_convert_gen! generates
OldConvert(p, f, c) ==
    LET trial == Get1(c.old, f.h)
    IN  IF trial.ok THEN Return(p, Ok(From(c.new, trial.val[1])))
        ELSE Continue(p, [f EXCEPT !.cand = @ + 1])

\* the decoder tbd_convert_gen! generates: hash_io.get(hash).ok(), a get of
\* the type the decoder returns
Convert(p, f, c) == Call(p, [f EXCEPT !.pc = "flexwait"], GetFrame(c.new, f.h))
\* a chain that reports an error of its own when every decoder has failed
GetFlexStep_OwnError(p, f) ==
    LET flex == Decl(f.T).flex
        c == Converter(flex[f.cand])
    IN  IF f.cand > Len(flex) THEN Return(p, Err(IOError))
        ELSE IF c.gen = "tbd_old_convert_gen" THEN OldConvert(p, f, c)
        ELSE Convert(p, f, c)

\* receive_hashable after a failed internal_receive: flex_fn, the chain of
\* tbd_convert_chain!, one decoder a step
GetFlexStep(p, f) ==
    LET flex == Decl(f.T).flex
        c == Converter(flex[f.cand])
    IN  IF f.cand > Len(flex) THEN Return(p, Err(f.err))
        ELSE IF c.gen = "tbd_old_convert_gen" THEN OldConvert(p, f, c)
        ELSE Convert(p, f, c)

GetFlex(p) ==
    /\ Running(p, "get", "flex")
    /\ LET f == Top(p)
           d == GetFlexStep(p, f)
           flex == Decl(f.T).flex
       IN  /\ Finish(p, d)
           /\ trace' = trace
                       \o (IF f.cand = 1 THEN <<Event("error", f.T, f.h, f.err)>> ELSE <<>>)
                       \o (IF f.cand > Len(flex) THEN <<>>
                           ELSE <<Event("convert", flex[f.cand], f.h, NoError)>>)
           /\ migrated' = IF d.end = "returned" /\ d.r.ok
                          THEN migrated \cup {d.r.val[1]} ELSE migrated
    /\ UNCHANGED <<fs, faults, ops, seen, load, models, logvars>>

---------------------------------------------------------------------------
(* HashIO::put. *)
\* a put that does not store the children first
PutCheckStep_NoChilds(p, f) ==
    IF Exists(filename_for_hash(f.h)) THEN Return(p, OkUnit)
    ELSE Continue(p, [f EXCEPT !.pc = "mkdir"])

\* a put that writes the record again although its file exists
PutCheckStep_NoSkip(p, f) ==
    IF Decl(f.T).kind = "model" /\ f.v[1].childs # <<>>
    THEN Continue(p, [f EXCEPT !.pc = "childs", !.i = 1])
    ELSE Continue(p, [f EXCEPT !.pc = "mkdir"])

\* the skip of a value whose file exists, else on to store_childs
PutCheckStep(p, f) ==
    IF Exists(filename_for_hash(f.h)) THEN Return(p, OkUnit)
    ELSE IF Decl(f.T).kind = "model" /\ f.v[1].childs # <<>>
    THEN Continue(p, [f EXCEPT !.pc = "childs", !.i = 1])
    ELSE Continue(p, [f EXCEPT !.pc = "mkdir"])

PutCheck(p) ==
    /\ Running(p, "put", "check")
    /\ Finish(p, PutCheckStep(p, Top(p)))
    /\ UNCHANGED <<fs, trace, faults, ops, seen, migrated, load, models, logvars>>

\* store_childs of a model: put of each child field in turn
PutChilds(p) ==
    /\ Running(p, "put", "childs")
    /\ Finish(p, Call(p, Top(p), PutFrame(Top(p).v[1].childs[Top(p).i])))
    /\ UNCHANGED <<fs, trace, faults, ops, seen, migrated, load, models, logvars>>

\* create_dir_all
PutMkdir(p) ==
    /\ Running(p, "put", "mkdir")
    /\ dirs' = dirs \cup {directory_for_hash(Top(p).h)}
    /\ Finish(p, Continue(p, [Top(p) EXCEPT !.pc = "create"]))
    /\ UNCHANGED <<names, inodes, trace, faults, ops, seen, migrated, load, models, logvars>>

\* File::create of the temporary path: a new empty file, or the file at
\* the path truncated
PutCreate(p) ==
    /\ Running(p, "put", "create")
    /\ LET path == safe_filename(Top(p).h)
           ino == IF Exists(path) THEN names[path] ELSE FreeInode
       IN  /\ names' = IF Exists(path) THEN names ELSE names @@ (path :> ino)
           /\ Finish(p, Continue(p, [Top(p) EXCEPT !.pc = "store", !.fd = ino,
                                                   !.off = 0, !.i = 1]))
           /\ inodes' = Collect(names', (ino :> <<>>) @@ inodes, stack')
    /\ UNCHANGED <<dirs, trace, faults, ops, seen, migrated, load, models, logvars>>

\* whether store_hashable of the frame still has an element to put: the
\* containers put their elements before they write
StoresElement(f) ==
    /\ Decl(f.T).kind \in {"map", "vec"}
    /\ f.i <= Len(f.v[1].childs)

\* store_hashable of a container at an element: put of the element
PutElement(p) ==
    /\ Running(p, "put", "store")
    /\ StoresElement(Top(p))
    /\ Finish(p, Call(p, Top(p), PutFrame(Top(p).v[1].childs[Top(p).i])))
    /\ UNCHANGED <<fs, trace, faults, ops, seen, migrated, load, models, logvars>>

\* write_to at the next token; after the last one the file is closed
PutWrite(p) ==
    /\ Running(p, "put", "store")
    /\ ~StoresElement(Top(p))
    /\ LET f == Top(p)
           full == write_to(f.v[1])
           off == f.off + 1
       IN  /\ Finish(p, Continue(p, IF off = Len(full)
                                    THEN [f EXCEPT !.pc = "rename", !.fd = 0, !.off = off]
                                    ELSE [f EXCEPT !.off = off]))
           /\ inodes' = Collect(names, [inodes EXCEPT ![f.fd] = WriteAt(@, full, off, full[off])],
                                stack')
    /\ UNCHANGED <<names, dirs, trace, faults, ops, seen, migrated, load, models, logvars>>

\* rename of the temporary path to the final path
PutRename(p) ==
    /\ Running(p, "put", "rename")
    /\ LET f == Top(p)
           from == safe_filename(f.h)
           to == filename_for_hash(f.h)
       IN  IF Exists(from)
           THEN /\ names' = [q \in (DOMAIN names \ {from}) \cup {to} |->
                                IF q = to THEN names[from] ELSE names[q]]
                /\ Finish(p, Return(p, OkUnit))
                /\ inodes' = Collect(names', inodes, stack')
           ELSE /\ Finish(p, Return(p, Err(IOError)))
                /\ inodes' = Collect(names, inodes, stack')
                /\ UNCHANGED names
    /\ UNCHANGED <<dirs, trace, faults, ops, seen, migrated, load, models, logvars>>

\* whether the next step of a put frame is a call of the file system
DoesIO(f) ==
    IF f.pc = "store" THEN ~StoresElement(f) ELSE f.pc \in {"mkdir", "create", "rename"}

\* a failing put that removes its temporary file before it returns the error
PutFail_Cleanup(p) ==
    /\ stack[p] # <<>>
    /\ Top(p).op = "put"
    /\ DoesIO(Top(p))
    /\ faults < MaxFaults
    /\ faults' = faults + 1
    /\ Finish(p, Return(p, Err(IOError)))
    /\ names' = [q \in DOMAIN names \ {safe_filename(Top(p).h)} |-> names[q]]
    /\ inodes' = Collect(names', inodes, stack')
    /\ UNCHANGED <<dirs, trace, ops, seen, migrated, load, models, logvars>>

\* a failing put that removes the records of the children it has stored
PutFail_Rollback(p) ==
    /\ stack[p] # <<>>
    /\ Top(p).op = "put"
    /\ DoesIO(Top(p))
    /\ faults < MaxFaults
    /\ faults' = faults + 1
    /\ Finish(p, Return(p, Err(IOError)))
    /\ LET childs == Top(p).v[1].childs
           stored == {filename_for_hash(as_hash(childs[i])) : i \in 1..Len(childs)}
       IN  names' = [q \in DOMAIN names \ stored |-> names[q]]
    /\ inodes' = Collect(names', inodes, stack')
    /\ UNCHANGED <<dirs, trace, ops, seen, migrated, load, models, logvars>>

\* create_dir_all, File::create, a write or rename fails: try! returns the
\* error; the open file is closed and nothing is removed
PutFail(p) ==
    /\ stack[p] # <<>>
    /\ Top(p).op = "put"
    /\ DoesIO(Top(p))
    /\ faults < MaxFaults
    /\ faults' = faults + 1
    /\ Finish(p, Return(p, Err(IOError)))
    /\ inodes' = Collect(names, inodes, stack')
    /\ UNCHANGED <<names, dirs, trace, ops, seen, migrated, load, models, logvars>>

\* the process stops in the middle of a put; the files stay as they are
Crash(p) ==
    /\ stack[p] # <<>>
    /\ Top(p).op = "put"
    /\ faults < MaxFaults
    /\ faults' = faults + 1
    /\ Finish(p, [stk |-> <<>>, end |-> "crashed", r |-> OkUnit])
    /\ inodes' = Collect(names, inodes, stack')
    /\ UNCHANGED <<names, dirs, trace, ops, seen, migrated, load, models, logvars>>

---------------------------------------------------------------------------
(* DefaultLog (log.rs): a map from hash to entry and the hash of the head. *)
(* Each entry holds its item and the hash of the entry pushed before it.   *)

\* Option
None == <<>>
Some(x) == <<x>>

\* the items of the documentation example: MyStruct { x: u8 }
MyStruct(x) == [x |-> x]
Items == {MyStruct(42), MyStruct(23)}

\* Writable::writeable_to_hash, the as_hash of MyStruct: SHA3 of what
\* write_to writes, the byte x
writeable_to_hash(t) == hash_bytes(<<TokU8(t.x)>>)

\* Hashable for Hash: the digest of the 32 bytes of the digest
hash_as_hash(h) == hash_bytes(get_bytes(h))

DefaultLogEntry(entry, parent) == [entry |-> entry, parent_hash |-> parent]

\* DefaultLog::new
DefaultLogNew == [entries |-> <<>>, head |-> None]

\* BTreeMap::insert on the entries
entries_insert(entries, hash, log_entry) ==
    [k \in DOMAIN entries \cup {hash} |-> IF k = hash THEN log_entry ELSE entries[k]]

\* a push that keys the first entry by the content hash of the item itself
push_ContentHash(log, t) ==
    LET entry_hash == writeable_to_hash(t)
        hash == IF log.head = None THEN entry_hash ELSE hash_with(entry_hash, log.head[1])
    IN  [log |-> [entries |-> entries_insert(log.entries, hash, DefaultLogEntry(t, log.head)),
                  head |-> Some(hash)],
         hash |-> hash]

\* a push that chains the hashes the other way round: head.hash_with(entry_hash)
push_Swapped(log, t) ==
    LET entry_hash == writeable_to_hash(t)
        hash == IF log.head = None
                THEN hash_as_hash(entry_hash)
                ELSE hash_with(log.head[1], entry_hash)
    IN  [log |-> [entries |-> entries_insert(log.entries, hash, DefaultLogEntry(t, log.head)),
                  head |-> Some(hash)],
         hash |-> hash]

\* a push that does not chain: the hash of an entry is that of its item alone
push_NoChain(log, t) ==
    LET hash == hash_as_hash(writeable_to_hash(t))
    IN  [log |-> [entries |-> entries_insert(log.entries, hash, DefaultLogEntry(t, log.head)),
                  head |-> Some(hash)],
         hash |-> hash]

\* DefaultLog::push: the log after the call and the hash it returns
push(log, t) ==
    LET entry_hash == writeable_to_hash(t)
        hash == IF log.head = None
                THEN hash_as_hash(entry_hash)
                ELSE hash_with(entry_hash, log.head[1])
        log_entry == DefaultLogEntry(t, log.head)
    IN  [log |-> [entries |-> entries_insert(log.entries, hash, log_entry),
                  head |-> Some(hash)],
         hash |-> hash]

\* DefaultLog::head_hash
head_hash(log) == log.head

\* DefaultLog::parent_hash
parent_hash(log, hash) ==
    IF hash \in DOMAIN log.entries THEN log.entries[hash].parent_hash ELSE None

\* DefaultLog::get
get(log, hash) ==
    IF hash \in DOMAIN log.entries THEN Some(log.entries[hash].entry) ELSE None

\* a get_mut that takes the entry out of the map
get_mut_Take(log, hash, t) ==
    [log EXCEPT !.entries = [k \in DOMAIN log.entries \ {hash} |-> log.entries[k]]]

\* DefaultLog::get_mut, and the caller assigning t through the reference it
\* returns: the log afterwards
get_mut(log, hash, t) ==
    IF hash \in DOMAIN log.entries
    THEN [log EXCEPT !.entries = entries_insert(@, hash,
                                    DefaultLogEntry(t, log.entries[hash].parent_hash))]
    ELSE log

\* LogIteratorRef::from_log and LogIteratorHash::from_log
NoIter == [kind |-> "", l |-> 0, hash |-> None, out |-> <<>>]
from_log(kind, l, log) == [kind |-> kind, l |-> l, hash |-> head_hash(log), out |-> <<>>]

\* a next that returns the item of the parent, not of the entry it stands at
LogIteratorRef_next_Parent(it, log) ==
    IF it.hash = None THEN [hash |-> None, value |-> None]
    ELSE [hash |-> parent_hash(log, it.hash[1]),
          value |-> IF parent_hash(log, it.hash[1]) = None THEN None
                    ELSE get(log, parent_hash(log, it.hash[1])[1])]

\* LogIteratorRef::next: the hash the iterator holds afterwards and the
\* value it returns
LogIteratorRef_next(it, log) ==
    IF it.hash = None THEN [hash |-> None, value |-> None]
    ELSE [hash |-> parent_hash(log, it.hash[1]), value |-> get(log, it.hash[1])]

\* LogIteratorHash::next: it returns self.hash after the move to the parent
LogIteratorHash_next(it, log) ==
    IF it.hash = None THEN [hash |-> None, value |-> None]
    ELSE [hash |-> parent_hash(log, it.hash[1]), value |-> parent_hash(log, it.hash[1])]

Logs == {1, 2}

\* the closures DefaultLog::new, with_load_fn and with_save_fn box into the
\* fields load and save: no call has reached them
NoCalls == [load |-> <<>>, save |-> <<>>]

NoAsk == [l |-> 0, fn |-> "", hash |-> GarbageHash, r |-> None]

\* two fresh logs
LogInit ==
    /\ logs = [l \in Logs |-> DefaultLogNew]
    /\ pushes = [l \in Logs |-> <<>>]
    /\ iter = NoIter
    /\ hooks = [l \in Logs |-> NoCalls]
    /\ asked = NoAsk

\* the entries of log l that hold another item than the one pushed
Mutated(ls, l) ==
    {i \in 1..Len(pushes[l]) : get(ls[l], pushes[l][i].hash) # Some(pushes[l][i].item)}

\* a push whose hash takes in something of the log instance it is called on
Push_Stamped(l, t) ==
    /\ iter = NoIter
    /\ Len(pushes[l]) < MaxPush
    /\ LET hash == hash_with(push(logs[l], t).hash, hash_bytes(<<TokU32(l)>>))
       IN  /\ logs' = [logs EXCEPT ![l] =
                        [entries |-> entries_insert(logs[l].entries, hash,
                                                    DefaultLogEntry(t, logs[l].head)),
                         head |-> Some(hash)]]
           /\ pushes' = [pushes EXCEPT ![l] =
                            Append(@, [item |-> t, hash |-> hash, parent |-> logs[l].head])]
    /\ UNCHANGED <<iter, hookvars, hashio_vars>>

\* a call of push; no iterator borrows the log
Push(l, t) ==
    /\ iter = NoIter
    /\ Len(pushes[l]) < MaxPush
    /\ LET r == push(logs[l], t)
       IN  /\ logs' = [logs EXCEPT ![l] = r.log]
           /\ pushes' = [pushes EXCEPT ![l] =
                            Append(@, [item |-> t, hash |-> r.hash, parent |-> logs[l].head])]
    /\ UNCHANGED <<iter, hookvars, hashio_vars>>

\* a call of get_mut and an assignment through the reference it returns
GetMut(l, hash, t) ==
    /\ iter = NoIter
    /\ get(logs[l], hash) \notin {None, Some(t)}
    /\ logs' = [logs EXCEPT ![l] = get_mut(logs[l], hash, t)]
    /\ Cardinality(UNION {{<<k, i>> : i \in Mutated(logs', k)} : k \in Logs}) <= MaxMut
    /\ UNCHANGED <<pushes, iter, hookvars, hashio_vars>>

\* the hashes a caller holds: those push returned, and one no push returned
\* (get_mut of it returns None)
Held == UNION {{pushes[l][i].hash : i \in 1..Len(pushes[l])} : l \in Logs} \cup {GarbageHash}

\* DefaultLog::iter and DefaultLog::hash_iter
IterStart(kind, l) ==
    /\ iter = NoIter
    /\ iter' = from_log(kind, l, logs[l])
    /\ UNCHANGED <<logs, pushes, hookvars, hashio_vars>>

\* a call of next on the live iterator
IterNext ==
    /\ iter # NoIter
    /\ Len(iter.out) < Len(pushes[iter.l]) + MaxExtra
    /\ LET r == IF iter.kind = "ref"
                THEN LogIteratorRef_next(iter, logs[iter.l])
                ELSE LogIteratorHash_next(iter, logs[iter.l])
       IN  iter' = [iter EXCEPT !.hash = r.hash, !.out = Append(@, r.value)]
    /\ UNCHANGED <<logs, pushes, hookvars, hashio_vars>>

\* the iterator goes out of scope
IterDrop ==
    /\ iter # NoIter
    /\ iter' = NoIter
    /\ UNCHANGED <<logs, pushes, hookvars, hashio_vars>>

\* the callers of one log: every operation of DefaultLog
NextLog ==
    \/ \E t \in Items : Push(1, t)
    \/ \E hash \in Held : \E t \in Items : GetMut(1, hash, t)
    \/ \E kind \in {"ref", "hash"} : IterStart(kind, 1)
    \/ IterNext
    \/ IterDrop

\* a caller calls get or parent_hash with a hash it holds: both take &self,
\* read the map and leave the log and its closures as they are
Lookup(l, fn, hash) ==
    /\ iter = NoIter
    /\ asked' = [l |-> l, fn |-> fn, hash |-> hash,
                 r |-> IF fn = "get" THEN get(logs[l], hash) ELSE parent_hash(logs[l], hash)]
    /\ UNCHANGED <<logs, pushes, iter, hooks, hashio_vars>>

\* the callers of a log that look entries up between pushes and assignments
NextHooks ==
    \/ \E t \in Items : Push(1, t)
    \/ \E hash \in Held : \E t \in Items : GetMut(1, hash, t)
    \/ \E fn \in {"get", "parent_hash"} : \E hash \in Held : Lookup(1, fn, hash)

\* the callers of two logs, which push and assign through get_mut
NextLogs ==
    \/ \E l \in Logs : \E t \in Items : Push(l, t)
    \/ \E l \in Logs : \E hash \in Held : \E t \in Items : GetMut(l, hash, t)

---------------------------------------------------------------------------
(* The models a crate declares with tbd_model!.  A scalar field is declared *)
(* with a type and the functions that write and read it; the type is any   *)
(* type the functions take by value, and the type hash takes it by the     *)
(* spelling of the declaration.  A child field is declared with a storable *)
(* type.                                                                   *)

ModelNames == {"M1", "M2"}

\* the spellings of scalar field types: u8, and a Copy type a crate names
\* String
ScalarTypes == {"u8", "String"}

\* the types of child fields
ChildTypes == {"String", "test2::A"}

RECURSIVE SeqsUpTo(_, _)
SeqsUpTo(S, n) ==
    IF n = 0 THEN {<<>>}
    ELSE LET shorter == SeqsUpTo(S, n - 1)
         IN  shorter \cup {Append(s, x) : s \in shorter, x \in S}

NotDeclared == [declared |-> FALSE, attrs |-> <<>>, childs |-> <<>>, type_hash |-> GarbageHash]

\* tbd_model!(m, [attrs], [childs]): the struct and its Typeable impl
Declare(m, attrs, childs) ==
    /\ ~models[m].declared
    /\ Len(attrs) + Len(childs) <= MaxFields
    /\ models' = [models EXCEPT ![m] =
                    [declared |-> TRUE, attrs |-> attrs, childs |-> childs,
                     type_hash |-> model_type_hash(attrs, childs)]]
    /\ UNCHANGED <<names, inodes, dirs, stack, result, trace, putOk, faults, ops, seen,
                   migrated, load, logvars>>

\* a crate declares its models
NextTypes ==
    \E m \in ModelNames :
        \E attrs \in SeqsUpTo(ScalarTypes, MaxFields) :
            \E childs \in SeqsUpTo(ChildTypes, MaxFields) : Declare(m, attrs, childs)

---------------------------------------------------------------------------
(* The values and hashes of the runs: those of the tests of hashio.rs.     *)

\* test2::simple_test
A20 == Model("test2::A", <<20>>, <<Str("Foo")>>)
A30 == Model("test2::A", <<30>>, <<Str("baz")>>)
B0 == Model("test2::B", <<>>, <<Str("Foo"), A20, A30>>)

\* btreemaptest::test, and a Vec with an element twice
Map0 ==
    Model("BTreeMap<String, String>", <<>>,
          <<Str("bla"), Str("one"), Str("one"), Str("1")>>)
MapA0 == Model("btreemaptest::A", <<>>, <<Map0>>)
Vec0 == Model("Vec<String>", <<>>, <<Str("one"), Str("one")>>)
Vec1 == Model("Vec<String>", <<>>, <<Str("Foo")>>)

\* convert_test::main: save_hashio1, save_b and the A that load_a returns
OldA1 == Model("convert_test::A1", <<>>, <<Str("bla")>>)
OldA2 == Model("convert_test::A2", <<>>, <<Str("bla"), Str("one")>>)
ConvB0 == Model("convert_test::B", <<>>, <<Str("bla"), Str("")>>)
ConvA0 == From("convert_test::A", OldA1)
ConvC0 == From("convert_test::C", OldA1)

Loads == {"test2", "btreemap", "convert", "convert_c"}

\* the values a run puts
Puts(l) ==
    CASE l = "test2" -> {B0, A20}
      [] l = "btreemap" -> {MapA0, Vec0}
      [] l = "convert" -> {ConvA0, ConvB0, ConvC0}
      [] l = "convert_c" -> {ConvC0, ConvB0}
      [] OTHER -> {A20, Vec1}

Target(T, hash) == [T |-> T, h |-> hash]

\* the type and hash of the gets of a run
Gets(l) ==
    CASE l = "test2" ->
            {Target("test2::B", as_hash(B0)), Target("test2::A", as_hash(A20)),
             Target("test2::B", as_hash(A20)), Target("test2::A", as_hash(Str("Foo")))}
      [] l = "btreemap" ->
            {Target("btreemaptest::A", as_hash(MapA0)),
             Target("btreemaptest::A", as_hash(Map0)),
             Target("Vec<String>", as_hash(Vec0)),
             Target("Vec<String>", as_hash(Map0)),
             Target("String", as_hash(MapA0))}
      [] l = "convert" ->
            {Target("convert_test::A", as_hash(OldA1)),
             Target("convert_test::A", as_hash(ConvA0)),
             Target("convert_test::B", as_hash(ConvB0)),
             Target("convert_test::A", as_hash(ConvC0)),
             Target("convert_test::A", as_hash(Str("bla")))}
      [] l = "convert_c" ->
            {Target("convert_test::C", as_hash(OldA1)),
             Target("convert_test::C", as_hash(OldA2)),
             Target("convert_test::C", as_hash(ConvC0)),
             Target("convert_test::C", as_hash(ConvB0)),
             Target("convert_test::C", as_hash(Str("bla")))}
      [] OTHER -> {}

\* the records the legacy store has written before the run
Legacy(l) ==
    CASE l = "convert" -> <<Str("bla"), OldA1>>
      [] l = "convert_c" -> <<Str("bla"), Str("one"), OldA1, OldA2>>
      [] OTHER -> <<>>

NotSeen == [found |-> FALSE, h |-> GarbageHash, bytes |-> <<>>]

InitLoad(l) ==
    /\ load = l
    /\ names = [q \in {filename_for_hash(as_hash(Legacy(l)[i])) : i \in 1..Len(Legacy(l))} |->
                    CHOOSE i \in 1..Len(Legacy(l)) : q = filename_for_hash(as_hash(Legacy(l)[i]))]
    /\ inodes = [i \in 1..Len(Legacy(l)) |-> write_to(Legacy(l)[i])]
    /\ dirs = {directory_for_hash(as_hash(Legacy(l)[i])) : i \in 1..Len(Legacy(l))}
    /\ stack = [p \in Procs |-> <<>>]
    /\ result = [p \in Procs |-> NoOutcome]
    /\ trace = <<>>
    /\ putOk = {}
    /\ faults = 0
    /\ ops = 0
    /\ seen = NotSeen
    /\ migrated = {}
    /\ models = [m \in ModelNames |-> NotDeclared]
    /\ LogInit

\* HashIO::new over a base path that holds what the legacy store wrote
Init == \E l \in Loads : InitLoad(l)

\* a client calls hash_io.put(&v)
StartPut(p, v) ==
    /\ stack[p] = <<>>
    /\ ops < MaxOps
    /\ ops' = ops + 1
    /\ stack' = [stack EXCEPT ![p] = <<PutFrame(v)>>]
    /\ result' = [result EXCEPT ![p] = NoOutcome]
    /\ trace' = <<>>
    /\ UNCHANGED <<fs, putOk, faults, seen, migrated, load, models, logvars>>

\* a client calls hash_io.get::<T>(&h)
StartGet(p, q) ==
    /\ stack[p] = <<>>
    /\ ops < MaxOps
    /\ ops' = ops + 1
    /\ stack' = [stack EXCEPT ![p] = <<GetFrame(q.T, q.h)>>]
    /\ result' = [result EXCEPT ![p] = NoOutcome]
    /\ trace' = <<>>
    /\ UNCHANGED <<fs, putOk, faults, seen, migrated, load, models, logvars>>

PutStep(p) ==
    \/ PutCheck(p)
    \/ PutChilds(p)
    \/ PutMkdir(p)
    \/ PutCreate(p)
    \/ PutElement(p)
    \/ PutWrite(p)
    \/ PutRename(p)

GetStep(p) ==
    \/ GetOpen(p)
    \/ GetChild(p)
    \/ GetEntry(p)
    \/ GetFlex(p)

\* one client: its calls one after the other, a put of which may fail at a
\* call of the file system or stop with the process
Next ==
    \/ \E v \in Puts(load) : StartPut(1, v)
    \/ \E q \in Gets(load) : StartGet(1, q)
    \/ PutStep(1)
    \/ GetStep(1)
    \/ PutFail(1)
    \/ Crash(1)

Spec == Init /\ [][Next]_vars

---------------------------------------------------------------------------
(* Writers in two processes over one base path, and a reader. *)

\* a reader opens the file at a final path and reads it to its end
Observe(hash) ==
    /\ Exists(filename_for_hash(hash))
    /\ seen' = [found |-> TRUE, h |-> hash, bytes |-> FileAt(filename_for_hash(hash))]
    /\ UNCHANGED <<fs, stack, result, trace, putOk, faults, ops, migrated, load, models, logvars>>

InitConc == InitLoad("race")

NextConc ==
    \/ \E p \in Procs : \E v \in Puts(load) : StartPut(p, v)
    \/ \E p \in Procs : PutStep(p)
    \/ \E v \in Puts(load) : Observe(as_hash(v))

SpecConc == InitConc /\ [][NextConc]_vars

\* the file of a record disappears from the store directory (removed from
\* outside, or lost with a shard directory that was not copied): File::open
\* of its path fails from now on.  The outcome of the last call, which saw
\* the store as it was, is forgotten.
Lose ==
    /\ stack[1] = <<>>
    /\ faults < MaxFaults
    /\ faults' = faults + 1
    /\ \E q \in DOMAIN names :
        /\ ~q.tmp
        /\ names' = [r \in DOMAIN names \ {q} |-> names[r]]
    /\ inodes' = Collect(names', inodes, stack)
    /\ result' = [result EXCEPT ![1] = NoOutcome]
    /\ trace' = <<>>
    /\ UNCHANGED <<dirs, stack, putOk, ops, seen, migrated, load, models, logvars>>

NextLost ==
    \/ Next
    \/ Lose

\* the single client on a store directory that can lose files
SpecLost == Init /\ [][NextLost]_vars

\* fresh logs and their callers; the store is empty and idle
InitLog == InitLoad("log")

\* one log under every operation of DefaultLog
SpecLog == InitLog /\ [][NextLog]_vars

\* two logs that are pushed to side by side
SpecLogs == InitLog /\ [][NextLogs]_vars

\* one log whose caller looks entries up
SpecHooks == InitLog /\ [][NextHooks]_vars

\* no store, no log: the declarations of a crate
InitTypes == InitLoad("types")

SpecTypes == InitTypes /\ [][NextTypes]_vars

---------------------------------------------------------------------------
(* What the claims speak of. *)

Idle(p) == stack[p] = <<>>

\* a value and every value below it
RECURSIVE Parts(_)
Parts(v) == {v} \cup UNION {Parts(v.childs[i]) : i \in 1..Len(v.childs)}

\* every value a run of the model can write, by either store
Universe ==
    UNION {Parts(v) : v \in UNION {Puts(l) \cup {Legacy(l)[i] : i \in 1..Len(Legacy(l))} :
                                    l \in Loads \cup {"race"}}}

\* the bytes are the whole record of a value with this content hash
CompleteRecord(hash, bytes) ==
    \E v \in Universe : as_hash(v) = hash /\ bytes = write_to(v)

\* the child hashes a record references: the digests after the head of a
\* record of the current format, every digest of a legacy record
ChildRefs(bytes) ==
    {bytes[i].h[1] : i \in {j \in 1..Len(bytes) :
        /\ bytes[j].k = "hash"
        /\ (bytes[1].k = "u32" => j >= 3)}}

\* the finished get of the client, if its last call was one
LastGet(T, hash) ==
    /\ Idle(1)
    /\ result[1].op = "get"
    /\ result[1].T = T
    /\ result[1].h = hash

\* the decoders the finished get called for its own hash, in call order, and
\* the failed primary decode it reported for it
Converts == SelectSeq(trace, LAMBDA e : e.ev = "convert" /\ e.h = result[1].h)
PrimaryErrors ==
    SelectSeq(trace, LAMBDA e : e.ev = "error" /\ e.h = result[1].h /\ e.T = result[1].T)

\* the file at the final path of the hash is a record of the current format
\* with a supported version whose type hash is not that of T
TypeMismatch(T, hash) ==
    /\ Exists(filename_for_hash(hash))
    /\ LET bytes == FileAt(filename_for_hash(hash))
       IN  /\ Len(bytes) >= 2
           /\ bytes[1].k = "u32"
           /\ bytes[1].n >= 1
           /\ bytes[2].k = "hash"
           /\ bytes[2].h[1] # type_hash(T)

\* the file at the final path of the hash is the record that put wrote for
\* a value of type T
WrittenAs(T, hash) ==
    /\ Exists(filename_for_hash(hash))
    /\ \E v \in Universe :
        /\ v.type = T
        /\ as_hash(v) = hash
        /\ FileAt(filename_for_hash(hash)) = write_to(v)

\* the record of the hash and the records of all hashes it references, at
\* any depth, are at their final paths
RECURSIVE Loadable(_)
Loadable(hash) ==
    /\ Exists(filename_for_hash(hash))
    /\ \A c \in ChildRefs(FileAt(filename_for_hash(hash))) : Loadable(c)

---------------------------------------------------------------------------
(* The claims. *)

\* C1: after put(v) has returned Ok on a store in any reachable state, a get
\* of v.as_hash() for the type of v returns Ok with a value equal to v.
C1_RoundTrip ==
    \A v \in putOk :
        LastGet(v.type, as_hash(v)) => result[1].end = "returned" /\ result[1].r = Ok(v)

\* a get returns the nested model B0 of three children after its put
C1_Witness == LastGet("test2::B", as_hash(B0)) /\ B0 \in putOk /\ result[1].r = Ok(B0)

\* C2: in every state of the store of a single writer, whose puts may fail
\* or crash at any step, a record at a final path has a record at the final
\* path of every child hash it references.
C2_ChildrenBeforeParent ==
    \A q \in DOMAIN names :
        ~q.tmp => \A c \in ChildRefs(FileAt(q)) : Exists(filename_for_hash(c))

\* the record of B0 is on disk in a run in which a put failed or crashed
C2_Witness == Exists(filename_for_hash(as_hash(B0))) /\ faults > 0

\* C3: with a single writer that may crash at any step of put, a final path
\* is absent or holds the complete record of its hash, and no file is at the
\* final path of a value while its put has not renamed the temporary file.
C3_Atomicity ==
    /\ \A q \in DOMAIN names : ~q.tmp => CompleteRecord(q.h, FileAt(q))
    /\ \A i \in 1..Len(stack[1]) :
            (stack[1][i].op = "put" /\ stack[1][i].pc # "check")
            => ~Exists(filename_for_hash(stack[1][i].h))

\* a crash between the last write and the rename: the temporary file holds
\* the whole record and the final path is absent
C3_Witness ==
    /\ result[1].end = "crashed"
    /\ \E v \in Puts(load) :
        /\ Exists(safe_filename(as_hash(v)))
        /\ FileAt(safe_filename(as_hash(v))) = write_to(v)
        /\ ~Exists(filename_for_hash(as_hash(v)))

\* C4: while writers put values of the same hash concurrently, a reader that
\* finds a file at the final path reads a complete record.
C4_NoPartialRead == seen.found => CompleteRecord(seen.h, seen.bytes)

\* C5: when two writers put identical content concurrently, both puts
\* return Ok.
C5_RacingWritersOk ==
    \A p \in Procs : \A q \in Procs \ {p} :
        /\ result[p].op = "put"
        /\ result[p].end = "returned"
        /\ result[q].v = result[p].v \/ (~Idle(q) /\ stack[q][1].v = result[p].v)
        => result[p].r.ok

\* C6: a put of a value whose file exists at its final path returns Ok in
\* its next step and changes no file, no directory and stores no child.
C6_IdempotentPut ==
    [][\A p \in Procs :
        (/\ Running(p, "put", "check")
         /\ Exists(filename_for_hash(Top(p).h))
         /\ stack'[p] # stack[p]
         /\ faults' = faults)
        => /\ fs' = fs
           /\ Len(stack'[p]) = Len(stack[p]) - 1
           /\ Len(stack[p]) = 1 => result'[p] = Outcome(stack[p][1], OkUnit, "returned")]_vars

\* the client puts a value a second time, after its put has returned Ok
C6_Witness ==
    /\ Running(1, "put", "check")
    /\ Len(stack[1]) = 1
    /\ Top(1).v[1] \in putOk
    /\ Exists(filename_for_hash(Top(1).h))

\* C7: a get of a model type T on a record of a supported version whose type
\* hash is not that of T returns TypeError with the type hash of the record,
\* unless a decoder of the migration chain of T succeeds.
C7_TypeSafety ==
    (/\ Idle(1)
     /\ result[1].op = "get"
     /\ Decl(result[1].T).kind = "model"
     /\ TypeMismatch(result[1].T, result[1].h))
    => /\ result[1].end = "returned"
       /\ result[1].r.ok => Converts # <<>>
       /\ ~result[1].r.ok =>
            result[1].r.err = TypeError(FileAt(filename_for_hash(result[1].h))[2].h[1])

\* C8: when the primary decode of a get fails, the decoders of the chain are
\* called in declared order; the get returns the result of the first one
\* that succeeds and calls none after it; when all fail it returns the error
\* of the primary decode.
C8_ChainOrder ==
    (/\ Idle(1)
     /\ result[1].op = "get"
     /\ result[1].end = "returned"
     /\ PrimaryErrors # <<>>)
    => LET flex == Decl(result[1].T).flex
           n == Len(Converts)
           Trial(i) == Get1(Converter(flex[i]).old, result[1].h)
       IN  /\ n <= Len(flex)
           /\ \A i \in 1..n : Converts[i].T = flex[i]
           /\ \A i \in 1..(n - 1) : ~Trial(i).ok
           /\ result[1].r.ok =>
                /\ n >= 1
                /\ Trial(n).ok
                /\ result[1].r = Ok(From(result[1].T, Trial(n).val[1]))
           /\ ~result[1].r.ok =>
                /\ n = Len(flex)
                /\ n >= 1 => ~Trial(n).ok
                /\ Len(PrimaryErrors) = 1
                /\ result[1].r.err = PrimaryErrors[1].e

\* the second decoder of a chain succeeded after the first one failed
C8_Witness ==
    /\ Idle(1)
    /\ result[1].op = "get"
    /\ result[1].r.ok
    /\ Len(Converts) = 2

\* C9: a get ends in success or in the error of its primary decode: it
\* never runs out of stack, and it never enters get again for a type and
\* hash it is already decoding.
C9_GetTerminates ==
    /\ result[1].end # "overflow"
    /\ \A i \in 1..Len(stack[1]) : \A j \in 1..Len(stack[1]) :
            (i < j /\ stack[1][i].op = "get")
            => ~(stack[1][i].T = stack[1][j].T /\ stack[1][i].h = stack[1][j].h)

\* C10: after a value a that a get returned from its migration chain has
\* been put, a get of a.as_hash() returns a from the primary decode, calling
\* no decoder of the chain.
C10_RewriteForward ==
    \A a \in migrated \cap putOk :
        LastGet(a.type, as_hash(a))
        => /\ result[1].end = "returned"
           /\ result[1].r = Ok(a)
           /\ Converts = <<>>
           /\ PrimaryErrors = <<>>

\* the A converted from the legacy record has been put and is read back
C10_Witness ==
    /\ LastGet("convert_test::A", as_hash(ConvA0))
    /\ ConvA0 \in migrated \cap putOk
    /\ result[1].r = Ok(ConvA0)

\* C11: a step of put that fails makes the whole call return that error in
\* the same step (no retry); every path, directory and file content is as
\* before the failure, so a temporary file already created stays; and no
\* file is at the final path of a value whose put returned an error.
C11_PutFailure ==
    /\ [](Idle(1) /\ result[1].op = "put" /\ result[1].end = "returned" /\ ~result[1].r.ok
            => ~Exists(filename_for_hash(result[1].h)))
    /\ [][(/\ stack[1] # <<>>
           /\ Top(1).op = "put"
           /\ faults' = faults + 1
           /\ result'[1].end # "crashed")
          => /\ stack'[1] = <<>>
             /\ result'[1] = Outcome(stack[1][1], Err(IOError), "returned")
             /\ names' = names
             /\ dirs' = dirs
             /\ \A q \in DOMAIN names : inodes'[names[q]] = inodes[names[q]]]_vars

\* a put has returned an error and its temporary file is on disk
C11_Witness ==
    /\ Idle(1)
    /\ result[1].op = "put"
    /\ result[1].end = "returned"
    /\ ~result[1].r.ok
    /\ Exists(safe_filename(result[1].h))

\* C12: a get of a composite or container type on a record written for
\* that type, one of whose children is missing or cannot be decoded because
\* a record below it is missing, returns; it returns Ok only with a value a
\* decoder of the parent's migration chain produced, and an error else.
C12_ChildFailureFatal ==
    (/\ Idle(1)
     /\ result[1].op = "get"
     /\ Decl(result[1].T).kind # "string"
     /\ WrittenAs(result[1].T, result[1].h)
     /\ ~Loadable(result[1].h))
    => /\ result[1].end = "returned"
       /\ result[1].r.ok => Converts # <<>>

\* the items pushed to log l and the hashes push returned, in call order
PushedItems(l) == [i \in 1..Len(pushes[l]) |-> pushes[l][i].item]
PushedHashes(l) == [i \in 1..Len(pushes[l]) |-> pushes[l][i].hash]

\* what the k-th call of next on a fresh iterator over log l is to return:
\* the entries from the last pushed to the first, then None
ExpectedItem(l, k) ==
    IF k <= Len(pushes[l]) THEN Some(pushes[l][Len(pushes[l]) - k + 1].item) ELSE None
ExpectedHash(l, k) ==
    IF k <= Len(pushes[l]) THEN Some(pushes[l][Len(pushes[l]) - k + 1].hash) ELSE None

\* C13 (as stated): the first push on an empty log returns the content hash
\* of the item itself, item.as_hash(), with no further hashing.
C13_FirstPushIsContentHash ==
    \A l \in Logs :
        pushes[l] # <<>> => pushes[l][1].hash = writeable_to_hash(pushes[l][1].item)

\* C13 (amended): the first push on an empty log returns, and keys the new
\* entry by, the digest of the content hash of the item:
\* item.as_hash().as_hash() = hash_bytes(item.as_hash().get_bytes()).
C13_FirstPushHash ==
    \A l \in Logs :
        pushes[l] # <<>> =>
            /\ pushes[l][1].parent = None
            /\ pushes[l][1].hash = hash_bytes(get_bytes(writeable_to_hash(pushes[l][1].item)))
            /\ pushes[l][1].hash \in DOMAIN logs[l].entries
            /\ pushes[l][1].hash # writeable_to_hash(pushes[l][1].item)

\* one push has been made on log 1 and its entry is the head
C13_Witness ==
    /\ Len(pushes[1]) = 1
    /\ head_hash(logs[1]) = Some(pushes[1][1].hash)
    /\ get(logs[1], pushes[1][1].hash) = Some(pushes[1][1].item)

\* C14: a push of item on a log with head p (possibly None) that returns h
\* leaves head_hash() = Some(h), parent_hash(h) = p and get(h) = item, and
\* h = item.as_hash().hash_with(p) when the log was not empty; the parent of
\* every pushed entry is the hash the push before it returned.
C14_PushPostconditions ==
    /\ [](\A l \in Logs : \A i \in 2..Len(pushes[l]) :
            parent_hash(logs[l], pushes[l][i].hash) = Some(pushes[l][i - 1].hash))
    /\ [][\A l \in Logs :
            pushes'[l] # pushes[l] =>
                LET r == pushes'[l][Len(pushes'[l])]
                    p == head_hash(logs[l])
                IN  /\ Len(pushes'[l]) = Len(pushes[l]) + 1
                    /\ head_hash(logs'[l]) = Some(r.hash)
                    /\ parent_hash(logs'[l], r.hash) = p
                    /\ get(logs'[l], r.hash) = Some(r.item)
                    /\ p # None => r.hash = hash_with(writeable_to_hash(r.item), p[1])]_vars

\* a second push has been made on log 1
C14_Witness ==
    /\ Len(pushes[1]) = 2
    /\ head_hash(logs[1]) = Some(pushes[1][2].hash)
    /\ pushes[1][2].parent = Some(pushes[1][1].hash)

\* C15: the hashes the pushes on one log returned are pairwise distinct.
C15_DistinctHashes ==
    \A l \in Logs : \A i \in 1..Len(pushes[l]) : \A j \in 1..Len(pushes[l]) :
        i # j => pushes[l][i].hash # pushes[l][j].hash

\* the same item has been pushed twice in a row to an empty log
C15_Witness ==
    /\ Len(pushes[1]) = 2
    /\ pushes[1][1].item = pushes[1][2].item

\* C16: of two logs built by as many pushes, of items with another content
\* hash in the first push and the same items after it, the hashes returned
\* differ at every push.
C16_TamperEvidence ==
    (/\ Len(pushes[1]) = Len(pushes[2])
     /\ pushes[1] # <<>>
     /\ writeable_to_hash(pushes[1][1].item) # writeable_to_hash(pushes[2][1].item)
     /\ \A i \in 2..Len(pushes[1]) : pushes[1][i].item = pushes[2][i].item)
    => \A i \in 1..Len(pushes[1]) : pushes[1][i].hash # pushes[2][i].hash

\* two logs of three pushes that differ in the first item alone
C16_Witness ==
    /\ Len(pushes[1]) = 3
    /\ Len(pushes[2]) = 3
    /\ pushes[1][1].item # pushes[2][1].item
    /\ \A i \in 2..3 : pushes[1][i].item = pushes[2][i].item

C18_ItemIterationOrder ==
    (iter.kind = "ref" /\ Mutated(logs, iter.l) = {})
    => \A k \in 1..Len(iter.out) : iter.out[k] = ExpectedItem(iter.l, k)

\* an iterator over a log of three entries has returned three items and
\* None twice
C18_Witness ==
    /\ iter.kind = "ref"
    /\ Len(pushes[iter.l]) = 3
    /\ Mutated(logs, iter.l) = {}
    /\ Len(iter.out) = 5
    /\ iter.out[3] = Some(pushes[iter.l][1].item)
    /\ iter.out[5] = None

\* C19: on a log whose pushes returned h1..hn, the calls of next on a fresh
\* hash_iter() return hn, ..., h1 in that order, the head first, and None
\* only after those n.
C19_HashIterationOrder ==
    iter.kind = "hash"
    => \A k \in 1..Len(iter.out) : iter.out[k] = ExpectedHash(iter.l, k)

\* C20: whatever calls of push, get, get_mut, head_hash, parent_hash and of
\* the iterators were made, every hash a push returned is a key of the log
\* with the parent hash it had when pushed, and the log has as many entries
\* as pushes were made.
C20_AppendOnly ==
    \A l \in Logs :
        /\ \A i \in 1..Len(pushes[l]) :
            /\ pushes[l][i].hash \in DOMAIN logs[l].entries
            /\ parent_hash(logs[l], pushes[l][i].hash) = pushes[l][i].parent
        /\ Cardinality(DOMAIN logs[l].entries) = Len(pushes[l])

\* three pushes, an item replaced through get_mut, and an iteration over it
C20_Witness ==
    /\ Len(pushes[1]) = 3
    /\ Mutated(logs, 1) # {}
    /\ iter.kind = "ref"
    /\ iter.l = 1
    /\ Len(iter.out) >= 3

\* C21: every push has called the save closure of its log once, with the
\* entry it added, in push order; and a get or parent_hash of a hash that is
\* not in the map has called the load closure with that hash.
C21_HookInvocation ==
    /\ \A l \in Logs :
            hooks[l].save = [i \in 1..Len(pushes[l]) |->
                                DefaultLogEntry(pushes[l][i].item, pushes[l][i].parent)]
    /\ (asked # NoAsk /\ asked.hash \notin DOMAIN logs[asked.l].entries)
        => /\ hooks[asked.l].load # <<>>
           /\ hooks[asked.l].load[Len(hooks[asked.l].load)] = asked.hash

\* the file at the final path of the hash is the record the current store
\* wrote for a value of a type whose type hash is not that of T
WrittenByOther(T, hash) ==
    \E U \in {v.type : v \in Universe} :
        /\ Decl(U).kind # "model_1"
        /\ type_hash(U) # type_hash(T)
        /\ WrittenAs(U, hash)

\* C22: a get of any storable type T (String, BTreeMap and Vec included) on
\* a record written for a type with another type hash returns an error; it
\* never returns a value of T.
C22_TypeCheckEveryKind ==
    (/\ Idle(1)
     /\ result[1].op = "get"
     /\ WrittenByOther(result[1].T, result[1].h))
    => /\ result[1].end = "returned"
       /\ ~result[1].r.ok

\* the file of the hash starts with a version below 1
VersionBelow(hash) ==
    /\ Exists(filename_for_hash(hash))
    /\ LET bytes == FileAt(filename_for_hash(hash))
       IN  /\ bytes # <<>>
           /\ bytes[1].k = "u32"
           /\ bytes[1].n < 1

\* C23: the primary decode of a model record checks the version, then the
\* type hash.  On a version below 1 it fails with VersionError of that
\* version having read the four bytes of the version alone, whatever
\* follows them; on a type hash that is not its own it fails with TypeError
\* having read the version and the type hash alone.  In both cases it has
\* read no scalar field and no child hash, and the failure is reported right
\* after the file was opened, before any other file is opened.  A decode
\* that reads fields has found a supported version and its own type hash.
C23_FailFast ==
    /\ \A i \in 1..Len(stack[1]) :
        LET f == stack[1][i]
            bytes == FileAt(filename_for_hash(f.h))
        IN  (f.op = "get" /\ Decl(f.T).kind = "model" /\ f.pc # "open")
            => /\ VersionBelow(f.h)
                  => /\ f.pc \in {"flex", "flexwait"}
                     /\ f.err = VersionError(bytes[1].n)
                     /\ f.rd.left = ByteLen(bytes) - 4
                     /\ f.attrs = <<>> /\ f.vals = <<>>
               /\ TypeMismatch(f.T, f.h)
                  => /\ f.pc \in {"flex", "flexwait"}
                     /\ f.err = TypeError(bytes[2].h[1])
                     /\ f.rd.left = ByteLen(bytes) - 36
                     /\ f.attrs = <<>> /\ f.vals = <<>>
    /\ \A i \in 1..Len(trace) :
        (/\ trace[i].ev = "error"
         /\ VersionBelow(trace[i].h) \/ TypeMismatch(trace[i].T, trace[i].h))
        => /\ i > 1
           /\ trace[i - 1] = Event("open", trace[i].T, trace[i].h, NoError)
           /\ trace[i].e.kind = IF VersionBelow(trace[i].h) THEN "VersionError" ELSE "TypeError"

\* a get of a model type on the record of a map, which starts with 0 and
\* holds no type hash, has failed with VersionError(0)
C23_Witness ==
    /\ LastGet("btreemaptest::A", as_hash(Map0))
    /\ result[1].r = Err(VersionError(0))
    /\ Len(trace) = 2

\* a get of a model type on the record of another model has failed with
\* TypeError while that record's children are in the store
C23_WitnessType ==
    /\ LastGet("test2::B", as_hash(A20))
    /\ result[1].r = Err(TypeError(type_hash("test2::A")))
    /\ Len(trace) = 2

\* C24: a decoder generated by tbd_convert_gen!(f, Old, New) loads the
\* hash from the current store as Old and not as New: while a get of New
\* waits for the decoder, the get the decoder has called is a get of Old
\* for the same hash.
C24_ConvertLoadsOld ==
    \A i \in 1..(Len(stack[1]) - 1) :
        LET f == stack[1][i]
        IN  (f.op = "get" /\ f.pc = "flexwait")
            => /\ stack[1][i + 1].op = "get"
               /\ stack[1][i + 1].h = f.h
               /\ stack[1][i + 1].T = Converter(Decl(f.T).flex[f.cand]).old

\* C25: the migration chain of a model get runs if and only if the file of
\* the record was opened and its primary decode failed.  A get whose file
\* does not exist returns IOError having done nothing but the attempt to
\* open it: no failed decode is reported, no decoder is called.  A get of a
\* complete record of its type whose records below are all in the store
\* reports no failed decode and calls no decoder.  A get of a record with a
\* version below 1 or with another type hash reports the failed decode and
\* calls the first decoder of its chain.  Every frame that is in its chain,
\* and every failed decode and decoder call on the console, is of a hash
\* whose file exists and was opened before.
C25_WhenChainRuns ==
    /\ (Idle(1) /\ result[1].op = "get" /\ Decl(result[1].T).kind = "model")
        => LET T == result[1].T
               hash == result[1].h
           IN  /\ ~Exists(filename_for_hash(hash))
                  => /\ result[1].end = "returned"
                     /\ result[1].r = Err(IOError)
                     /\ trace = <<Event("open", T, hash, NoError)>>
               /\ (WrittenAs(T, hash) /\ Loadable(hash))
                  => /\ result[1].r.ok
                     /\ PrimaryErrors = <<>>
                     /\ Converts = <<>>
               /\ (VersionBelow(hash) \/ TypeMismatch(T, hash))
                  => /\ Len(PrimaryErrors) >= 1
                     /\ Decl(T).flex # <<>>
                        => Converts # <<>> /\ Converts[1].T = Decl(T).flex[1]
               /\ Converts # <<>> => PrimaryErrors # <<>>
    /\ \A i \in 1..Len(stack[1]) :
        LET f == stack[1][i]
        IN  (f.op = "get" /\ f.pc \in {"flex", "flexwait"})
            => /\ Exists(filename_for_hash(f.h))
               /\ f.err # NoError
    /\ \A i \in 1..Len(trace) :
        trace[i].ev \in {"error", "convert"}
        => /\ Exists(filename_for_hash(trace[i].h))
           /\ \E j \in 1..(i - 1) : trace[j].ev = "open" /\ trace[j].h = trace[i].h

\* a get of a model whose chain has two decoders, for a hash that has no
\* file, has returned IOError
C25_Witness ==
    /\ LastGet("convert_test::A", as_hash(ConvA0))
    /\ ~Exists(filename_for_hash(as_hash(ConvA0)))
    /\ result[1].r = Err(IOError)

\* the file at path q is there after the step, with the bytes it had
Kept(q) ==
    /\ q \in DOMAIN names'
    /\ inodes'[names'[q]] = inodes[names[q]]

\* C26: no step of a put or a get, a step of a put that fails or crashes
\* and a step of a get that runs its migration chain included, removes the
\* file at a final path or changes a byte of it; and a step of a get leaves
\* every path, every directory and the bytes of every file as they are.
C26_RecordsImmutable ==
    [][/\ \A q \in DOMAIN names : ~q.tmp => Kept(q)
       /\ (stack[1] # <<>> /\ Top(1).op = "get")
          => /\ names' = names
             /\ dirs' = dirs
             /\ \A q \in DOMAIN names : Kept(q)]_vars

\* records of the legacy store and of the current store are in the store
\* after a get has succeeded through its migration chain and a put has
\* failed or crashed
C26_Witness ==
    /\ Idle(1)
    /\ migrated # {}
    /\ faults > 0
    /\ \E q \in DOMAIN names : ~q.tmp /\ FileAt(q)[1].k = "u32"
    /\ \E q \in DOMAIN names : ~q.tmp /\ FileAt(q)[1].k = "hash"

\* the hash push derives for an item pushed onto the head parent
EntryHash(item, parent) ==
    IF parent = None
    THEN hash_as_hash(writeable_to_hash(item))
    ELSE hash_with(writeable_to_hash(item), parent[1])

\* C27: in every state of a log, after pushes and after assignments to
\* items through get_mut, the key of each entry is the hash derived from
\* the content hash of the item the entry holds and its parent hash.
C27_EntryHashInvariant ==
    \A l \in Logs : \A k \in DOMAIN logs[l].entries :
        k = EntryHash(logs[l].entries[k].entry, logs[l].entries[k].parent_hash)

\* what the decoder of a declared model reads after the version and the
\* type hash: a scalar per scalar field, then a child hash per child field
Layout(d) == [i \in 1..Len(d.attrs) |-> "scalar"] \o [i \in 1..Len(d.childs) |-> "child"]

\* C28: two declared models with equal type hashes declare the same scalar
\* field types in the same order, followed by child field types of the same
\* type hashes in the same order: the same number of fields, each scalar or
\* child in both.
C28_TypeHashCapturesShape ==
    \A a \in ModelNames : \A b \in ModelNames :
        (/\ models[a].declared
         /\ models[b].declared
         /\ models[a].type_hash = models[b].type_hash)
        => /\ models[a].attrs = models[b].attrs
           /\ TypeHashes(models[a].childs) = TypeHashes(models[b].childs)
           /\ Layout(models[a]) = Layout(models[b])

====
